---- MODULE Spec2Model ----
(***************************************************************************)
(* Model of the text-shaping pipeline of textforge:                        *)
(*   process.Shaper (ShapeText, requestCreateChatCompletion,               *)
(*   optimizePrompt, optimizeResponseResult, findMarkdownFirstCodeBlock)   *)
(*   and openai.ChatClient (RequestCreateChatCompletion and its helpers).  *)
(*                                                                         *)
(* A Go string is a sequence of one-character strings.  The fixed literal  *)
(* fragments of the prompt template are kept as single multi-character     *)
(* elements (they are never inspected character by character).             *)
(***************************************************************************)
EXTENDS Integers, Sequences, FiniteSets, TLC

\* ------------------------------------------------------------------ bounds
\* longest response text, in pieces, explored for the Response Optimizer
MaxPieces == 5
\* longest completion text, in pieces, explored for a whole shaping call
MaxContentPieces == 2

\* ------------------------------------------------------------ Go strings
NL == <<"\n">>
\* the backquote character (the string lexer has no literal for it)
Backquote == "BACKQUOTE"
Fence == <<Backquote, Backquote, Backquote>>

\* the characters of the regexp class [a-zA-Z0-9]
AlnumChars ==
    { "a","b","c","d","e","f","g","h","i","j","k","l","m",
      "n","o","p","q","r","s","t","u","v","w","x","y","z",
      "A","B","C","D","E","F","G","H","I","J","K","L","M",
      "N","O","P","Q","R","S","T","U","V","W","X","Y","Z",
      "0","1","2","3","4","5","6","7","8","9" }

\* strings.HasPrefix
HasPrefix(s, p) == Len(s) >= Len(p) /\ SubSeq(s, 1, Len(p)) = p

\* strings.HasSuffix
HasSuffix(s, p) == Len(s) >= Len(p) /\ SubSeq(s, Len(s) - Len(p) + 1, Len(s)) = p

\* strings.Split(s, "\n"): the pieces between the newlines, never empty
RECURSIVE SplitLines(_)
SplitLines(s) ==
    IF \A k \in 1..Len(s) : s[k] # "\n"
    THEN <<s>>
    ELSE LET k == CHOOSE k \in 1..Len(s) :
                     s[k] = "\n" /\ \A m \in 1..(k - 1) : s[m] # "\n"
         IN  <<SubSeq(s, 1, k - 1)>> \o SplitLines(SubSeq(s, k + 1, Len(s)))

\* strings.Join(lines, "\n")
RECURSIVE JoinLines(_)
JoinLines(lines) ==
    IF lines = <<>> THEN <<>>
    ELSE IF Len(lines) = 1 THEN lines[1]
    ELSE lines[1] \o NL \o JoinLines(Tail(lines))

\* ------------------------------------------------- findMarkdownFirstCodeBlock
\* the pattern (?s)```[a-zA-Z0-9]*?\n(.*?\n)``` matched at position i of text

\* "```" stands at position p
FenceAt(text, p) == p >= 1 /\ p + 2 <= Len(text) /\ SubSeq(text, p, p + 2) = Fence

\* the position after the language tag that starts at position t: the tag can
\* only end where a non-alphanumeric character stands, or the text ends
TagEnd(text, t) ==
    IF \E j \in t..Len(text) : text[j] \notin AlnumChars
    THEN CHOOSE j \in t..Len(text) :
             text[j] \notin AlnumChars /\ \A m \in t..(j - 1) : text[m] \in AlnumChars
    ELSE Len(text) + 1

\* the positions where group 1 may end when it starts at b: a newline that the
\* closing fence follows
GroupEnds(text, b) == { p \in b..Len(text) : text[p] = "\n" /\ FenceAt(text, p + 1) }

MatchesAt(text, i) ==
    /\ FenceAt(text, i)
    /\ LET j == TagEnd(text, i + 3)
       IN  /\ j <= Len(text)
           /\ text[j] = "\n"
           /\ GroupEnds(text, j + 1) # {}

\* group 1 of the match at i: .*? takes the fewest characters
GroupAt(text, i) ==
    LET b == TagEnd(text, i + 3) + 1
        p == CHOOSE p \in GroupEnds(text, b) : \A q \in GroupEnds(text, b) : p <= q
    IN  SubSeq(text, b, p)

\* a plausible slip: the newline left outside the capture group, (.*?)\n```
findMarkdownFirstCodeBlockNoNewline(text) ==
    LET starts == { i \in 1..Len(text) : MatchesAt(text, i) }
    IN  IF starts = {} THEN <<>>
        ELSE LET g == GroupAt(text, CHOOSE i \in starts : \A k \in starts : i <= k)
             IN  SubSeq(g, 1, Len(g) - 1)

\* FindStringSubmatch returns the leftmost match; match[1] or "" when none
findMarkdownFirstCodeBlock(text) ==
    LET starts == { i \in 1..Len(text) : MatchesAt(text, i) }
    IN  IF starts = {} THEN <<>>
        ELSE GroupAt(text, CHOOSE i \in starts : \A k \in starts : i <= k)

\* --------------------------------------------------- optimizeResponseResult
\* a plausible slip: the len(lines) > 2 guard dropped
stripEnclosingFenceNoGuard(result) ==
    IF HasPrefix(result, Fence) /\ HasSuffix(result, Fence)
    THEN LET lines == SplitLines(result)
         IN  JoinLines(SubSeq(lines, 2, Len(lines) - 1))
    ELSE result

\* lines 109-114: the enclosing fence lines go when there are more than two lines
stripEnclosingFence(result) ==
    IF HasPrefix(result, Fence) /\ HasSuffix(result, Fence)
    THEN LET lines == SplitLines(result)
         IN  IF Len(lines) > 2
             THEN JoinLines(SubSeq(lines, 2, Len(lines) - 1))
             ELSE result
    ELSE result

\* the regexp is a constant that compiles, so the error results never arise
optimizeResponseResult(rawResult, useFirstCodeBlock) ==
    LET result == stripEnclosingFence(rawResult)
    IN  IF useFirstCodeBlock
        THEN LET codeBlock == findMarkdownFirstCodeBlock(result)
             IN  IF codeBlock # <<>> THEN codeBlock ELSE result
        ELSE result

\* ------------------------------------------------------------- input texts
RECURSIVE Flatten(_)
Flatten(ps) == IF ps = <<>> THEN <<>> ELSE Head(ps) \o Flatten(Tail(ps))

Pieces == { Fence, NL, <<"a">>, <<" ">>, <<Backquote>> }

TextsUpTo(n) == { Flatten(ps) : ps \in UNION { [1..k -> Pieces] : k \in 0..n } }

\* the texts the documentation names
HelloFenced == Fence \o NL \o <<"H","E","L","L","O">> \o NL \o Fence
BlockJs == Fence \o <<"j","s">> \o NL \o <<"A">> \o NL \o Fence
BlockPy == Fence \o <<"p","y">> \o NL \o <<"B">> \o NL \o Fence
TwoBlocksBare == BlockJs \o NL \o BlockPy
TwoBlocksInProse == <<"x">> \o NL \o BlockJs \o NL \o <<"y">> \o NL \o BlockPy \o NL
NamedTexts ==
    { HelloFenced, Fence \o Fence, BlockJs, TwoBlocksBare, TwoBlocksInProse,
      <<"x">> \o NL \o BlockJs, Fence \o <<" ">> \o NL \o <<"X">> \o NL \o Fence }

RawTexts == TextsUpTo(MaxPieces) \cup NamedTexts

\* ------------------------------------------------------------------ errors
\* a Go error: the contexts and sentinels of its %w chain, outermost first, and
\* the values formatted into its text.  NoError is nil.
NoError == [layers |-> <<>>, detail |-> <<>>]

\* the sentinel declared at part_001 line 14
ErrUnexpectedStatusCode == "unexpected status code"

\* fmt.Errorf("<context>: %w", err)
Wrap(context, err) == [err EXCEPT !.layers = <<context>> \o @]

\* the failure http.Client.Do reports
ErrTransport == [layers |-> <<"net/http failure">>, detail |-> <<>>]
\* the failure io.ReadAll reports
ErrBodyRead == [layers |-> <<"unexpected EOF">>, detail |-> <<>>]
\* the failure json.Unmarshal reports
ErrJSONSyntax == [layers |-> <<"invalid character">>, detail |-> <<>>]

\* ---------------------------------------------------------------- wire data
\* a response body and what encoding/json finds in it
Garbage ==
    [json |-> FALSE, hasError |-> FALSE, errMessage |-> <<>>,
     hasChoices |-> FALSE, choices |-> <<>>]
EmptyObject == [Garbage EXCEPT !.json = TRUE]
ErrorBody(message) == [EmptyObject EXCEPT !.hasError = TRUE, !.errMessage = message]
CompletionBody(choices) == [EmptyObject EXCEPT !.hasChoices = TRUE, !.choices = choices]

Choice(content, finishReason) ==
    [Message |-> [Role |-> "assistant", Content |-> content],
     FinishReason |-> finishReason]

\* json.Unmarshal(respBody, &errorResponse): a missing field stays zero
unmarshalErrorResponse(body) ==
    IF body.json
    THEN [err |-> NoError, message |-> IF body.hasError THEN body.errMessage ELSE <<>>]
    ELSE [err |-> ErrJSONSyntax, message |-> <<>>]

\* makeChatCompletions: json.Unmarshal(body, &comp); a missing choices field
\* leaves Choices nil.  comp is <<>> for a nil pointer.
makeChatCompletions(body) ==
    IF body.json
    THEN [comp |-> << [Choices |-> IF body.hasChoices THEN body.choices ELSE <<>>,
                       ChoicesNil |-> ~body.hasChoices] >>,
          err |-> NoError]
    ELSE [comp |-> <<>>, err |-> Wrap("failed to unmarshal response body", ErrJSONSyntax)]

\* a plausible slip: only 200 taken as success
classifyResponseOnly200(status, body) ==
    IF status # 200
    THEN LET e == unmarshalErrorResponse(body)
         IN  IF e.err # NoError
             THEN [comp |-> <<>>, err |-> Wrap("failed to unmarshal error response", e.err)]
             ELSE [comp |-> <<>>,
                   err |-> [layers |-> <<ErrUnexpectedStatusCode>>,
                            detail |-> << [code |-> status, message |-> e.message] >>]]
    ELSE makeChatCompletions(body)

\* RequestCreateChatCompletion, lines 107-115: what is returned once the body is read
classifyResponse(status, body) ==
    IF status > 299
    THEN LET e == unmarshalErrorResponse(body)
         IN  IF e.err # NoError
             THEN [comp |-> <<>>, err |-> Wrap("failed to unmarshal error response", e.err)]
             ELSE [comp |-> <<>>,
                   err |-> [layers |-> <<ErrUnexpectedStatusCode>>,
                            detail |-> << [code |-> status, message |-> e.message] >>]]
    ELSE makeChatCompletions(body)

\* a plausible slip: the body closed on the success path only, without defer
closesBodyOnSuccessOnly(err) == err = NoError

\* lines 96-100: the deferred Close runs on every return that follows it
closesBody(err) == TRUE

\* the request object the factory builds
newCreateChatCompletion(model, prompt, maxTokens, stream) ==
    [Model |-> model, Messages |-> << [Role |-> "user", Content |-> prompt] >>,
     MaxTokens |-> maxTokens, Stream |-> stream]

\* a plausible slip: one request object kept and reused by every call
reusedRequestSlot(heap) == 1

\* MakeCreateChatCompletion returns a newly allocated request
freshRequestSlot(heap) == Len(heap) + 1

\* ------------------------------------------------------------ optimizePrompt
SupplementSubject ==
    "The subject of the Instruction is the area enclosed by the ai-text-shaper-input tag."
SupplementLanguage ==
    "The result should be returned in the language of the Instruction, but if the Instruction has a language specification, that language should be given priority."
SupplementExplain ==
    "Provide additional explanations or details only if explicitly requested in the Instruction."
InputOpen == "<ai-text-shaper-input>"
InputClose == "</ai-text-shaper-input>"

\* the template of lines 102-103 and the supplements joined by " "
optimizePrompt(prompt, input) ==
    <<"<Instruction>">> \o prompt \o <<".", " ", "(">>
        \o <<SupplementSubject, " ", SupplementLanguage, " ", SupplementExplain>>
        \o <<")", "</Instruction>", "\n", InputOpen>> \o input \o <<InputClose>>

\* ---------------------------------------------------------------- ShapeText
\* a plausible slip: the newline appended without looking
NewShapeResultAlwaysAppend(prompt, rawResult, result) ==
    [Prompt |-> prompt, RawResult |-> rawResult, Result |-> result \o NL]

NewShapeResult(prompt, rawResult, result) ==
    [Prompt |-> prompt, RawResult |-> rawResult,
     Result |-> IF ~HasSuffix(result, NL) THEN result \o NL ELSE result]

\* a plausible slip: || for &&
isDirectEither(inputOrg, promptOptimize) == inputOrg = <<>> \/ ~promptOptimize

\* line 40
isDirect(inputOrg, promptOptimize) == inputOrg = <<>> /\ ~promptOptimize

\* a plausible slip: the response optimized in direct mode as well
directResultOptimized(rawResult, useFirstCodeBlock) ==
    optimizeResponseResult(rawResult, useFirstCodeBlock)

\* line 45: result := rawResult
directResult(rawResult, useFirstCodeBlock) == rawResult

\* ---------------------------------------------- requestCreateChatCompletion
\* a plausible slip: the commented-out bound of line 65 in force
maxCountConfigured(maxCompletionRepeatCount) == maxCompletionRepeatCount

\* lines 65-66: the loop bound is 1 whatever the configured count
maxCount(maxCompletionRepeatCount) == 1

\* a plausible slip: a response without choices reported as a failure
afterResponseNoChoicesFails(acc, comp, err) ==
    IF err # NoError
    THEN [next |-> "fail", acc |-> <<>>, err |-> Wrap("failed to send chat message", err)]
    ELSE IF comp[1].ChoicesNil \/ Len(comp[1].Choices) = 0
    THEN [next |-> "fail", acc |-> <<>>,
          err |-> [layers |-> <<"no choices">>, detail |-> <<>>]]
    ELSE LET choice == comp[1].Choices[1]
         IN  [next |-> IF choice.FinishReason # "length" THEN "break" ELSE "continue",
              acc |-> acc \o choice.Message.Content, err |-> NoError]

\* lines 69-81, one pass of the loop body after the transport returned
afterResponse(acc, comp, err) ==
    IF err # NoError
    THEN [next |-> "fail", acc |-> <<>>, err |-> Wrap("failed to send chat message", err)]
    ELSE IF comp[1].ChoicesNil \/ Len(comp[1].Choices) = 0
    THEN [next |-> "break", acc |-> acc, err |-> NoError]
    ELSE LET choice == comp[1].Choices[1]
         IN  [next |-> IF choice.FinishReason # "length" THEN "break" ELSE "continue",
              acc |-> acc \o choice.Message.Content, err |-> NoError]

\* ------------------------------------------------------------------- state
\* largest configured --max-completion-repeat-count explored
MaxRepeatCount == 2

Calls == {1, 2}

VARIABLES
    shaper,     \* the Shaper's fields (gai is the client below)
    client,     \* the ChatClient's fields
    requests,   \* the CreateChatCompletion objects allocated so far
    script,     \* per call, what the remote end will do to its exchange
    call,       \* per ShapeText call, its position and its locals
    optRaw,     \* the rawResult argument of optimizeResponseResult
    optFlag,    \* its useFirstCodeBlock argument
    optOut,     \* its string result
    optPc       \* "call" before the function ran, "done" after

vars == <<shaper, client, requests, script, call, optRaw, optFlag, optOut, optPc>>
pipelineVars == <<shaper, client, requests, script, call>>
optVars == <<optRaw, optFlag, optOut, optPc>>

\* ------------------------------------------------------------------ inputs
StatusCodes == {200, 201, 299, 300, 400, 500}
FinishReasons == {"stop", "length"}
PromptTexts == { <<"f","i","x">>, <<>> }
InputTexts == { <<>>, <<"x">> }
BadRequest == <<"bad request">>

Contents == TextsUpTo(MaxContentPieces) \cup NamedTexts

Responds(status, body) ==
    [exchangeFails |-> FALSE, readFails |-> FALSE, status |-> status, body |-> body]

\* every transport outcome, with a few bodies
TransportScripts ==
    [exchangeFails : BOOLEAN, readFails : BOOLEAN, status : StatusCodes,
     body : { Garbage, EmptyObject, ErrorBody(BadRequest), CompletionBody(<<>>),
              CompletionBody(<<Choice(<<"a">>, "stop")>>) }]

\* successful exchanges, with every completion text
CompletionScripts ==
    { Responds(200, CompletionBody(<<Choice(t, f)>>)) : t \in Contents, f \in FinishReasons }
      \cup { Responds(200, CompletionBody(<<Choice(<<"a">>, f), Choice(<<"z">>, "stop")>>)) :
                f \in FinishReasons }

Scripts == TransportScripts \cup CompletionScripts

\* the outcomes explored for two concurrent calls
ConcurrentScripts ==
    { Responds(200, CompletionBody(<<Choice(HelloFenced, "stop")>>)),
      Responds(200, CompletionBody(<<Choice(<<"a">>, "length")>>)),
      Responds(200, CompletionBody(<<>>)),
      Responds(400, ErrorBody(BadRequest)),
      [Responds(200, Garbage) EXCEPT !.exchangeFails = TRUE],
      [Responds(200, Garbage) EXCEPT !.readFails = TRUE] }

\* a ShapeText call that has not begun
Pending(promptOrg, inputOrg) ==
    [pc |-> "start", promptOrg |-> promptOrg, inputOrg |-> inputOrg,
     direct |-> FALSE, prompt |-> <<>>, cr |-> 0, builds |-> 0,
     i |-> 0, acc |-> <<>>, sends |-> 0, wire |-> <<>>,
     responses |-> 0, status |-> 0, body |-> Garbage, bodyOpen |-> FALSE, closes |-> 0,
     comp |-> <<>>, terr |-> NoError,
     rawResult |-> <<>>, result |-> <<>>, ret |-> <<>>, err |-> NoError]

\* a call slot that is never used
Unused == [Pending(<<>>, <<>>) EXCEPT !.pc = "off"]

OptIdle ==
    /\ optRaw = <<>>
    /\ optFlag = FALSE
    /\ optOut = <<>>
    /\ optPc = "off"

ClientConfig == [apikey |-> "sk-key", model |-> "gpt-4o", logLevel |-> "", maxTokens |-> <<>>]

\* one ShapeText call on a newly constructed Shaper and ChatClient
Init ==
    /\ shaper \in [maxCompletionRepeatCount : 0..MaxRepeatCount,
                   useFirstCodeBlock : BOOLEAN, promptOptimize : BOOLEAN]
    /\ client = ClientConfig
    /\ requests = <<>>
    /\ \E s \in Scripts : script = [c \in Calls |-> s]
    /\ \E p \in PromptTexts, in \in InputTexts :
           call = [c \in Calls |-> IF c = 1 THEN Pending(p, in) ELSE Unused]
    /\ OptIdle

\* two concurrent ShapeText calls that share the Shaper and the ChatClient
InitConc ==
    /\ shaper \in [maxCompletionRepeatCount : 0..MaxRepeatCount,
                   useFirstCodeBlock : BOOLEAN, promptOptimize : BOOLEAN]
    /\ client = ClientConfig
    /\ requests = <<>>
    /\ script \in [Calls -> ConcurrentScripts]
    /\ \E in \in InputTexts :
           call = [c \in Calls |-> IF c = 1 THEN Pending(<<"f","i","x">>, in)
                                             ELSE Pending(<<"t","r">>, <<"x">>)]
    /\ OptIdle

\* ----------------------------------------------------------------- actions
Set(c, r) == call' = [call EXCEPT ![c] = r]

\* ShapeText lines 40-41 / 49-50 and requestCreateChatCompletion lines 62-63:
\* the mode is chosen, the prompt prepared and the request built
ShapeTextBegin(c) ==
    /\ call[c].pc = "start"
    /\ LET d == isDirect(call[c].inputOrg, shaper.promptOptimize)
           prompt == IF d THEN call[c].promptOrg
                          ELSE optimizePrompt(call[c].promptOrg, call[c].inputOrg)
           slot == freshRequestSlot(requests)
           cr == newCreateChatCompletion(client.model, prompt, client.maxTokens, FALSE)
       IN  /\ requests' = IF slot > Len(requests) THEN Append(requests, cr)
                                                  ELSE [requests EXCEPT ![slot] = cr]
           /\ Set(c, [call[c] EXCEPT !.direct = d, !.prompt = prompt, !.cr = slot,
                                     !.builds = @ + 1, !.i = 0, !.acc = <<>>,
                                     !.pc = "loop"])
    /\ UNCHANGED <<shaper, client, script, optVars>>

\* line 67: for i := 0; i < maxCount; i++
LoopTest(c) ==
    /\ call[c].pc = "loop"
    /\ Set(c, [call[c] EXCEPT !.pc =
                   IF call[c].i < maxCount(shaper.maxCompletionRepeatCount)
                   THEN "send" ELSE "tail"])
    /\ UNCHANGED <<shaper, client, requests, script, optVars>>

\* sendChatCompletionsRequest: client.Do fails, no response exists
SendFails(c) ==
    /\ call[c].pc = "send"
    /\ script[c].exchangeFails
    /\ Set(c, [call[c] EXCEPT !.sends = @ + 1,
                              !.wire = Append(@, requests[call[c].cr]),
                              !.comp = <<>>,
                              !.terr = Wrap("failed to execute request",
                                            Wrap("request failed", ErrTransport)),
                              !.pc = "recv"])
    /\ UNCHANGED <<shaper, client, requests, script, optVars>>

\* sendChatCompletionsRequest: the exchange yields a response with an open body
SendResponds(c) ==
    /\ call[c].pc = "send"
    /\ ~script[c].exchangeFails
    /\ Set(c, [call[c] EXCEPT !.sends = @ + 1,
                              !.wire = Append(@, requests[call[c].cr]),
                              !.responses = @ + 1,
                              !.status = script[c].status,
                              !.body = script[c].body,
                              !.bodyOpen = TRUE,
                              !.pc = "read"])
    /\ UNCHANGED <<shaper, client, requests, script, optVars>>

\* RequestCreateChatCompletion lines 102-115: io.ReadAll, then the classification
ReadAndClassify(c) ==
    /\ call[c].pc = "read"
    /\ LET r == IF script[c].readFails
                THEN [comp |-> <<>>,
                      err |-> Wrap("failed to read response body", ErrBodyRead)]
                ELSE classifyResponse(call[c].status, call[c].body)
       IN  Set(c, [call[c] EXCEPT !.comp = r.comp, !.terr = r.err, !.pc = "return"])
    /\ UNCHANGED <<shaper, client, requests, script, optVars>>

\* RequestCreateChatCompletion returns: the deferred function runs
ReturnFromTransport(c) ==
    /\ call[c].pc = "return"
    /\ Set(c, IF closesBody(call[c].terr)
              THEN [call[c] EXCEPT !.closes = @ + 1, !.bodyOpen = FALSE, !.pc = "recv"]
              ELSE [call[c] EXCEPT !.pc = "recv"])
    /\ UNCHANGED <<shaper, client, requests, script, optVars>>

\* requestCreateChatCompletion lines 69-81 and, on failure, ShapeText's return
Receive(c) ==
    /\ call[c].pc = "recv"
    /\ LET r == afterResponse(call[c].acc, call[c].comp, call[c].terr)
       IN  Set(c, IF r.next = "fail"
                  THEN [call[c] EXCEPT !.err = r.err, !.ret = <<>>, !.pc = "done"]
                  ELSE IF r.next = "break"
                  THEN [call[c] EXCEPT !.acc = r.acc, !.pc = "tail"]
                  ELSE [call[c] EXCEPT !.acc = r.acc, !.i = @ + 1, !.pc = "loop"])
    /\ UNCHANGED <<shaper, client, requests, script, optVars>>

\* ShapeText lines 45-46 / 54-58: the result is computed and the ShapeResult built
ShapeTextEnd(c) ==
    /\ call[c].pc = "tail"
    /\ LET rawResult == call[c].acc
           result == IF call[c].direct
                     THEN directResult(rawResult, shaper.useFirstCodeBlock)
                     ELSE optimizeResponseResult(rawResult, shaper.useFirstCodeBlock)
       IN  Set(c, [call[c] EXCEPT !.rawResult = rawResult, !.result = result,
                                  !.ret = <<NewShapeResult(call[c].prompt, rawResult, result)>>,
                                  !.err = NoError, !.pc = "done"])
    /\ UNCHANGED <<shaper, client, requests, script, optVars>>

Next ==
    \/ \E c \in Calls : ShapeTextBegin(c)
    \/ \E c \in Calls : LoopTest(c)
    \/ \E c \in Calls : SendFails(c)
    \/ \E c \in Calls : SendResponds(c)
    \/ \E c \in Calls : ReadAndClassify(c)
    \/ \E c \in Calls : ReturnFromTransport(c)
    \/ \E c \in Calls : Receive(c)
    \/ \E c \in Calls : ShapeTextEnd(c)

Spec == Init /\ [][Next]_vars

SpecConc == InitConc /\ [][Next]_vars

\* ------------------------------------------- the Response Optimizer alone
InitOpt ==
    /\ shaper = [maxCompletionRepeatCount |-> 1, useFirstCodeBlock |-> FALSE,
                 promptOptimize |-> TRUE]
    /\ client = ClientConfig
    /\ requests = <<>>
    /\ script = [c \in Calls |-> Responds(200, EmptyObject)]
    /\ call = [c \in Calls |-> Unused]
    /\ optRaw \in RawTexts
    /\ optFlag \in BOOLEAN
    /\ optOut = <<>>
    /\ optPc = "call"

OptimizeResponse ==
    /\ optPc = "call"
    /\ optOut' = optimizeResponseResult(optRaw, optFlag)
    /\ optPc' = "done"
    /\ UNCHANGED <<optRaw, optFlag, pipelineVars>>

NextOpt == OptimizeResponse

SpecOpt == InitOpt /\ [][NextOpt]_vars

\* ----------------------------------------------- a call run on its own
\* RequestCreateChatCompletion as one function of what the remote end does
transportAlone(sc) ==
    IF sc.exchangeFails
    THEN [comp |-> <<>>,
          err |-> Wrap("failed to execute request", Wrap("request failed", ErrTransport))]
    ELSE IF sc.readFails
    THEN [comp |-> <<>>, err |-> Wrap("failed to read response body", ErrBodyRead)]
    ELSE classifyResponse(sc.status, sc.body)

\* requestCreateChatCompletion's loop from pass i on
RECURSIVE requestAlone(_, _, _, _)
requestAlone(i, acc, n, sc) ==
    IF i >= n
    THEN [result |-> acc, err |-> NoError]
    ELSE LET t == transportAlone(sc)
             r == afterResponse(acc, t.comp, t.err)
         IN  IF r.next = "fail" THEN [result |-> <<>>, err |-> r.err]
             ELSE IF r.next = "break" THEN [result |-> r.acc, err |-> NoError]
             ELSE requestAlone(i + 1, r.acc, n, sc)

\* ShapeText as one function: the pair it returns
ShapeTextAlone(s, promptOrg, inputOrg, sc) ==
    LET d == isDirect(inputOrg, s.promptOptimize)
        prompt == IF d THEN promptOrg ELSE optimizePrompt(promptOrg, inputOrg)
        q == requestAlone(0, <<>>, maxCount(s.maxCompletionRepeatCount), sc)
        result == IF d THEN directResult(q.result, s.useFirstCodeBlock)
                       ELSE optimizeResponseResult(q.result, s.useFirstCodeBlock)
    IN  IF q.err # NoError
        THEN [ret |-> <<>>, err |-> q.err]
        ELSE [ret |-> <<NewShapeResult(prompt, q.result, result)>>, err |-> NoError]

\* ------------------------------------------------------------------ claims
Started(c) == call[c].pc \notin {"off", "start"}
Done(c) == call[c].pc = "done"
Returned(c) == Done(c) /\ call[c].ret # <<>>
Contains(s, sub) ==
    \E k \in 0..(Len(s) - Len(sub)) : SubSeq(s, k + 1, k + Len(sub)) = sub

\* C1 as stated: the Result of every returned ShapeResult ends with a newline
\* and does not end with two.
C1_ExactlyOneTerminator ==
    \A c \in Calls : Returned(c) =>
        /\ HasSuffix(call[c].ret[1].Result, NL)
        /\ ~HasSuffix(call[c].ret[1].Result, NL \o NL)

\* C1 (amended): the Result of every returned ShapeResult ends with a newline;
\* it is the computed result itself when that already ends with a newline
\* (however many), and the computed result plus one newline otherwise.
C1_TerminatedOnce ==
    \A c \in Calls : Returned(c) =>
        LET r == call[c].ret[1].Result
            computed == call[c].result
        IN  /\ Len(r) > 0 /\ r[Len(r)] = "\n"
            /\ IF Len(computed) > 0 /\ computed[Len(computed)] = "\n"
               THEN r = computed
               ELSE r = computed \o NL

\* a returned Result that ends with two newlines, none of them appended
C1_Witness ==
    \E c \in Calls :
        /\ Returned(c)
        /\ HasSuffix(call[c].ret[1].Result, NL \o NL)
        /\ call[c].ret[1].Result = call[c].ret[1].RawResult

\* the text between the first and the last newline of s
NewlinePositions(s) == { k \in 1..Len(s) : s[k] = "\n" }
BetweenOuterNewlines(s) ==
    LET a == CHOOSE a \in NewlinePositions(s) : \A k \in NewlinePositions(s) : a <= k
        b == CHOOSE b \in NewlinePositions(s) : \A k \in NewlinePositions(s) : b >= k
    IN  SubSeq(s, a + 1, b - 1)
FencedBothEnds(s) ==
    /\ Len(s) >= 3
    /\ \A k \in 1..3 : s[k] = Backquote /\ s[Len(s) - 3 + k] = Backquote
\* the text after the enclosing fence lines are taken away, stated without Split and Join
Unwrapped(s) ==
    IF FencedBothEnds(s) /\ Cardinality(NewlinePositions(s)) >= 2
    THEN BetweenOuterNewlines(s)
    ELSE s

\* the fenced blocks of t: <<i, b, p>> with the opening fence at i, an
\* alphanumeric tag and a newline up to b - 1, the interior b..p ending with the
\* newline at p, and the closing fence at p + 1
Blocks(t) ==
    { x \in (1..Len(t)) \X (1..Len(t)) \X (1..Len(t)) :
        /\ x[1] + 2 <= Len(t)
        /\ \A k \in x[1]..(x[1] + 2) : t[k] = Backquote
        /\ x[2] >= x[1] + 4
        /\ \A k \in (x[1] + 3)..(x[2] - 2) : t[k] \in AlnumChars
        /\ t[x[2] - 1] = "\n"
        /\ x[3] >= x[2]
        /\ t[x[3]] = "\n"
        /\ x[3] + 3 <= Len(t)
        /\ \A k \in (x[3] + 1)..(x[3] + 3) : t[k] = Backquote }
FirstBlock(t) ==
    CHOOSE x \in Blocks(t) :
        \A y \in Blocks(t) : x[1] < y[1] \/ (x[1] = y[1] /\ x[3] <= y[3])

\* C2 as stated: with useFirstCodeBlock the result is the first block's
\* interior ("A" for the two blocks of the example) when raw contains a
\* fenced block, and raw itself when it contains none.
C2_InteriorOrUnchanged ==
    (optPc = "done" /\ optFlag) =>
        /\ optRaw \in {TwoBlocksBare, TwoBlocksInProse} => optOut = <<"A">>
        /\ Blocks(optRaw) # {} =>
               optOut = SubSeq(optRaw, FirstBlock(optRaw)[2], FirstBlock(optRaw)[3] - 1)
        /\ Blocks(optRaw) = {} => optOut = optRaw

\* C2 (amended): with useFirstCodeBlock, the enclosing fence lines are first
\* taken away as in C3; if what is left contains a fenced block the result is
\* the first block's interior with its final newline ("A\n" for the two blocks
\* set in prose), and if it contains none the result is what is left.
C2_InteriorWithNewline ==
    (optPc = "done" /\ optFlag) =>
        LET t == Unwrapped(optRaw)
        IN  /\ optRaw = TwoBlocksInProse => optOut = <<"A", "\n">>
            /\ Blocks(t) # {} =>
                   /\ optOut = SubSeq(t, FirstBlock(t)[2], FirstBlock(t)[3])
                   /\ optOut[Len(optOut)] = "\n"
            /\ Blocks(t) = {} => optOut = t

\* the first of two blocks extracted, newline included
C2_Witness ==
    /\ optPc = "done" /\ optFlag
    /\ optRaw = TwoBlocksInProse
    /\ optOut = <<"A", "\n">>

\* C3: without useFirstCodeBlock, a raw text fenced at both ends with more
\* than two lines gives the lines between the first and the last
\* ("HELLO" for the fenced HELLO); any other raw text is returned as it is.
C3_StripEnclosingFence ==
    (optPc = "done" /\ ~optFlag) =>
        /\ optRaw = HelloFenced => optOut = <<"H","E","L","L","O">>
        /\ IF FencedBothEnds(optRaw) /\ Cardinality(NewlinePositions(optRaw)) >= 2
           THEN optOut = BetweenOuterNewlines(optRaw)
           ELSE optOut = optRaw

\* the fenced HELLO stripped to HELLO
C3_Witness ==
    /\ optPc = "done" /\ ~optFlag
    /\ optRaw = HelloFenced
    /\ optOut = <<"H","E","L","L","O">>

\* the content of the first choice the remote end answers with
ScriptedContent(c) == script[c].body.choices[1].Message.Content
Answered(c) ==
    /\ ~script[c].exchangeFails /\ ~script[c].readFails
    /\ script[c].status <= 299
    /\ script[c].body.json

\* C4: in a call with an empty input and prompt optimization off, the prompt
\* given to the request factory and recorded in the ShapeResult is the
\* original prompt, the response is not optimized, and Result is RawResult
\* or RawResult plus one newline.
C4_DirectPassThrough ==
    \A c \in Calls :
        (Started(c) /\ call[c].inputOrg = <<>> /\ ~shaper.promptOptimize) =>
            /\ call[c].prompt = call[c].promptOrg
            /\ Returned(c) =>
                   LET r == call[c].ret[1]
                   IN  /\ r.Prompt = call[c].promptOrg
                       /\ Len(script[c].body.choices) > 0 => r.RawResult = ScriptedContent(c)
                       /\ r.Result = r.RawResult \/ r.Result = r.RawResult \o NL

\* a direct call with useFirstCodeBlock set whose fenced completion is kept
C4_Witness ==
    \E c \in Calls :
        /\ Returned(c) /\ call[c].inputOrg = <<>> /\ ~shaper.promptOptimize
        /\ shaper.useFirstCodeBlock
        /\ call[c].ret[1].RawResult = HelloFenced
        /\ call[c].ret[1].Result = HelloFenced \o NL

\* C5: once the body is read the status code alone decides: above 299 there
\* is no completion and the error is ErrUnexpectedStatusCode with the code and
\* the parsed message, or the malformed-error-body error; up to 299 the error
\* is never ErrUnexpectedStatusCode and the outcome is the parsed completion
\* or the malformed-success-body error.
C5_StatusClassification ==
    \A c \in Calls :
        (call[c].pc \in {"return", "recv"} /\ call[c].responses > 0
           /\ ~script[c].readFails) =>
            LET st == call[c].status
                b == call[c].body
                e == call[c].terr
            IN  IF st > 299
                THEN /\ call[c].comp = <<>>
                     /\ IF b.json
                        THEN /\ e.layers = <<ErrUnexpectedStatusCode>>
                             /\ e.detail = << [code |-> st,
                                               message |-> IF b.hasError THEN b.errMessage
                                                                         ELSE <<>>] >>
                        ELSE /\ e.layers[1] = "failed to unmarshal error response"
                             /\ \A k \in 1..Len(e.layers) : e.layers[k] # ErrUnexpectedStatusCode
                ELSE /\ \A k \in 1..Len(e.layers) : e.layers[k] # ErrUnexpectedStatusCode
                     /\ IF b.json
                        THEN /\ e = NoError
                             /\ Len(call[c].comp) = 1
                             /\ call[c].comp[1].Choices = b.choices
                        ELSE /\ call[c].comp = <<>>
                             /\ e.layers[1] = "failed to unmarshal response body"

\* status 400 with the body {"error":{"message":"bad request"}}
C5_Witness ==
    \E c \in Calls :
        /\ call[c].pc = "recv"
        /\ call[c].status = 400 /\ call[c].body = ErrorBody(BadRequest)
        /\ call[c].terr = [layers |-> <<ErrUnexpectedStatusCode>>,
                           detail |-> << [code |-> 400, message |-> BadRequest] >>]

\* C6: a successful response without choices makes the call return a
\* ShapeResult with an empty RawResult and no error; a failed transport call
\* always makes it return an error and no ShapeResult.
C6_NoChoicesIsEmptyResult ==
    \A c \in Calls : Done(c) =>
        /\ (Answered(c) /\ Len(script[c].body.choices) = 0) =>
               /\ call[c].err = NoError
               /\ Len(call[c].ret) = 1
               /\ call[c].ret[1].RawResult = <<>>
        /\ ~Answered(c) => (call[c].err # NoError /\ call[c].ret = <<>>)

\* a response whose choices list is present and empty
C6_Witness ==
    \E c \in Calls :
        /\ Returned(c) /\ Answered(c)
        /\ script[c].body.hasChoices /\ script[c].body.choices = <<>>
        /\ call[c].ret[1].RawResult = <<>>

\* C7: in every call but the one with an empty input and prompt optimization
\* off, the prompt given to the request factory and recorded in the
\* ShapeResult contains the original prompt, the language directive and the
\* input between its two markers.
C7_OptimizedPrompt ==
    \A c \in Calls :
        (Started(c) /\ ~(call[c].inputOrg = <<>> /\ ~shaper.promptOptimize)) =>
            /\ Contains(call[c].prompt, call[c].promptOrg)
            /\ Contains(call[c].prompt, <<SupplementLanguage>>)
            /\ Contains(call[c].prompt, <<InputOpen>> \o call[c].inputOrg \o <<InputClose>>)
            /\ Returned(c) => call[c].ret[1].Prompt = call[c].prompt

\* optimization off and a non-empty input: the prompt is wrapped all the same
C7_Witness ==
    \E c \in Calls :
        /\ Returned(c) /\ ~shaper.promptOptimize /\ call[c].inputOrg = <<"x">>
        /\ Contains(call[c].ret[1].Prompt, <<InputOpen, "x", InputClose>>)

\* C8: with two calls interleaved, the Shaper and the ChatClient are never
\* written, the calls hold different request objects, each object stays as
\* its call built it, and a finished call returned what it returns alone.
C8_NoSharedMutableState ==
    /\ [][shaper' = shaper /\ client' = client]_vars
    /\ [](\A c \in Calls :
            /\ \A d \in Calls \ {c} :
                   (Started(c) /\ Started(d)) => call[c].cr # call[d].cr
            /\ Started(c) =>
                   requests[call[c].cr] =
                       newCreateChatCompletion(client.model, call[c].prompt,
                                               client.maxTokens, FALSE)
            /\ Done(c) =>
                   [ret |-> call[c].ret, err |-> call[c].err] =
                       ShapeTextAlone(shaper, call[c].promptOrg, call[c].inputOrg, script[c]))

\* both calls finished, one with a ShapeResult and one with an error
C8_Witness ==
    /\ Returned(1) /\ Done(2) /\ call[2].err # NoError
    /\ call[1].cr # call[2].cr

\* C9: a finished call built one request and called the transport once,
\* whatever the configured repeat count; a transport failure is returned
\* wrapped; a first choice with FinishReason "length" is returned as it is,
\* and the request is as it was built.
C9_SingleAttempt ==
    \A c \in Calls :
        /\ call[c].builds <= 1 /\ call[c].sends <= 1
        /\ Done(c) =>
            /\ call[c].builds = 1 /\ call[c].sends = 1 /\ Len(requests) = 1
            /\ ~Answered(c) =>
                   /\ call[c].ret = <<>>
                   /\ call[c].err = Wrap("failed to send chat message", call[c].terr)
            /\ (Answered(c) /\ Len(script[c].body.choices) > 0
                  /\ script[c].body.choices[1].FinishReason = "length") =>
                   /\ call[c].err = NoError
                   /\ Len(call[c].ret) = 1
                   /\ call[c].ret[1].RawResult = ScriptedContent(c)
                   /\ requests[call[c].cr] =
                          newCreateChatCompletion(client.model, call[c].prompt,
                                                  client.maxTokens, FALSE)

\* a truncated completion returned after one transport call, repeat count 2
C9_Witness ==
    \E c \in Calls :
        /\ Returned(c) /\ shaper.maxCompletionRepeatCount = 2
        /\ Len(script[c].body.choices) > 0
        /\ script[c].body.choices[1].FinishReason = "length"
        /\ call[c].sends = 1
        /\ call[c].ret[1].RawResult = ScriptedContent(c)

\* C10: bodies closed never exceed responses received; once the transport
\* call has returned, every response's body was closed once and none is
\* open; a failed exchange gives no response and nothing is closed.
C10_BodyClosedOnce ==
    \A c \in Calls :
        /\ call[c].closes <= call[c].responses
        /\ call[c].pc \in {"recv", "loop", "tail", "done"} =>
               (call[c].closes = call[c].responses /\ ~call[c].bodyOpen)
        /\ (Started(c) /\ script[c].exchangeFails) =>
               (call[c].responses = 0 /\ call[c].closes = 0)

\* the body closed once although reading it failed
C10_Witness ==
    \E c \in Calls :
        /\ Done(c) /\ ~script[c].exchangeFails /\ script[c].readFails
        /\ call[c].responses = 1 /\ call[c].closes = 1 /\ ~call[c].bodyOpen

====
